---- MODULE Spec2Model ----
(***************************************************************************)
(* The ChaCha quarter round of src/crpyto/chacha20.py: the three basic     *)
(* operations (add, xor, left_roll), chacha_quarter_round, and the         *)
(* ChaChaState wrapper that applies it to four positions of an array of    *)
(* unsigned longs.                                                         *)
(*                                                                         *)
(* A Python int is unbounded, and a 32-bit word does not fit a TLC         *)
(* integer, so an int n >= 0 is represented by the set of the positions of *)
(* its one bits: 5 is {0, 2}, 0xFFFFFFFF is 0..31, 2^32 is {32}.  Two ints *)
(* are equal iff their sets are.                                           *)
(***************************************************************************)
EXTENDS Integers, Sequences, FiniteSets

VARIABLES
    state,     \* ChaChaState.state: the backing array, position i+1 is index i
    itemsize,  \* array('L').itemsize of the build: 4 or 8 bytes
    op,        \* the last call: its name and arguments
    ret,       \* what the last call returned (None when it returned nothing)
    err,       \* the exception the last call raised, or "none"
    prev,      \* the backing array before the last call
    init0,     \* the backing array after construction
    touched,   \* the positions written by some call since construction
    args,      \* the four words the basic operations are tried on
    done,      \* the quadruples of the current round already applied
    round,     \* the round being run, a sequence of four quadruples
    steps      \* the number of calls made

vars == <<state, itemsize, op, ret, err, prev, init0, touched, args, done, round, steps>>

----------------------------------------------------------------------------
(* Bounds of the exploration *)

\* the number of calls made on one ChaChaState
MaxSteps == 2

----------------------------------------------------------------------------
(* Python's int operators on sets of bit positions *)

Max(a, b) == IF a >= b THEN a ELSE b

Pow2(n) == 2 ^ n

\* the int whose low 16 bits are lo and whose next 16 bits are hi: 0xHHHHLLLL
Hex(hi, lo) ==
    {i \in 0..15 : (lo \div Pow2(i)) % 2 = 1}
        \cup {i + 16 : i \in {j \in 0..15 : (hi \div Pow2(j)) % 2 = 1}}

\* int.bit_length()
BitLength(x) == IF x = {} THEN 0 ELSE 1 + CHOOSE i \in x : \A j \in x : j <= i

Bit(x, i) == IF i \in x THEN 1 ELSE 0

RECURSIVE AddFrom(_, _, _, _, _)
AddFrom(x, y, i, carry, n) ==
    IF i = n
    THEN (IF carry = 1 THEN {n} ELSE {})
    ELSE LET s == Bit(x, i) + Bit(y, i) + carry
         IN  (IF s % 2 = 1 THEN {i} ELSE {}) \cup AddFrom(x, y, i + 1, s \div 2, n)

\* x + y
IntAdd(x, y) == AddFrom(x, y, 0, 0, Max(BitLength(x), BitLength(y)))

\* x & y
IntAnd(x, y) == x \cap y

\* x | y
IntOr(x, y) == x \cup y

\* x ^ y
IntXor(x, y) == (x \ y) \cup (y \ x)

\* x << c
IntShl(x, c) == {i + c : i \in x}

\* x >> c
IntShr(x, c) == {i - c : i \in {j \in x : j >= c}}

\* the literal 0xFFFFFFFF
MASK == Hex(\hFFFF, \hFFFF)

----------------------------------------------------------------------------
(* ChaCha basic operations *)

\* an add that keeps the carry out of bit 31
add_unmasked(a, b) == IntAdd(a, b)

add(a, b) == IntAnd(IntAdd(a, b), MASK)

xor(a, b) == IntXor(a, b)

\* a roll that drops the bits shifted out at the top instead of wrapping them
left_roll_shift(x, c) == IntAnd(IntShl(x, c), MASK)

left_roll(x, c) == IntAnd(IntOr(IntShl(x, c), IntShr(x, 32 - c)), MASK)

\* a quarter round whose second and third lines changed places
chacha_quarter_round_reordered(a, b, c, d) ==
    LET a1 == add(a, b)    d1 == xor(d, a1)    d2 == left_roll(d1, 16)
        a2 == add(a1, b)   d3 == xor(d2, a2)   d4 == left_roll(d3, 8)
        c1 == add(c, d4)   b1 == xor(b, c1)    b2 == left_roll(b1, 12)
        c2 == add(c1, d4)  b3 == xor(b2, c2)   b4 == left_roll(b3, 7)
    IN  <<a2, b4, c2, d4>>

\* chacha_quarter_round: the four lines, each on the values the one before left
chacha_quarter_round(a, b, c, d) ==
    LET a1 == add(a, b)    d1 == xor(d, a1)    d2 == left_roll(d1, 16)
        c1 == add(c, d2)   b1 == xor(b, c1)    b2 == left_roll(b1, 12)
        a2 == add(a1, b2)  d3 == xor(d2, a2)   d4 == left_roll(d3, 8)
        c2 == add(c1, d4)  b3 == xor(b2, c2)   b4 == left_roll(b3, 7)
    IN  <<a2, b4, c2, d4>>

----------------------------------------------------------------------------
(* array('L'): a sequence of unsigned longs of itemsize bytes *)

\* the value of a call that returns nothing
None == {-1}

\* the length of the default backing array, [0] * 16
StateLen == 16

\* array('L', [0] * 16)
DefaultState == [p \in 1..StateLen |-> {}]

\* a negative index counts from the end of the array
NormIndex(s, i) == IF i < 0 THEN i + Len(s) ELSE i

IndexOk(s, i) == NormIndex(s, i) >= 0 /\ NormIndex(s, i) < Len(s)

\* an unsigned long of the build holds v
Fits(v, size) == \A i \in v : i < 8 * size

\* array.__getitem__(index)
ArrayGet(s, i) ==
    IF IndexOk(s, i)
    THEN [val |-> s[NormIndex(s, i) + 1], err |-> "none"]
    ELSE [val |-> None, err |-> "IndexError"]

\* a store that appends when the index is one past the end
ArraySet_append(s, i, v, size) ==
    IF i = Len(s) /\ Fits(v, size) THEN [st |-> Append(s, v), err |-> "none"]
    ELSE IF ~IndexOk(s, i) THEN [st |-> s, err |-> "IndexError"]
    ELSE IF ~Fits(v, size) THEN [st |-> s, err |-> "OverflowError"]
    ELSE [st |-> [s EXCEPT ![NormIndex(s, i) + 1] = v], err |-> "none"]

\* array.__setitem__(index, value): the index is checked before the value
ArraySet(s, i, v, size) ==
    IF ~IndexOk(s, i) THEN [st |-> s, err |-> "IndexError"]
    ELSE IF ~Fits(v, size) THEN [st |-> s, err |-> "OverflowError"]
    ELSE [st |-> [s EXCEPT ![NormIndex(s, i) + 1] = v], err |-> "none"]

\* one target of an assignment statement: skipped once an earlier one raised
Assign(r, i, v, size) == IF r.err # "none" THEN r ELSE ArraySet(r.st, i, v, size)

\* a quarter round that also clears the word after w
StateQuarterRound_spill(s, x, y, z, w, size) ==
    LET gx == ArrayGet(s, x)
        gy == ArrayGet(s, y)
        gz == ArrayGet(s, z)
        gw == ArrayGet(s, w)
    IN  IF gx.err # "none" \/ gy.err # "none" \/ gz.err # "none" \/ gw.err # "none"
        THEN [st |-> s, err |-> "IndexError"]
        ELSE LET q  == chacha_quarter_round(gx.val, gy.val, gz.val, gw.val)
                 r1 == Assign([st |-> s, err |-> "none"], x, q[1], size)
                 r2 == Assign(r1, y, q[2], size)
                 r3 == Assign(r2, z, q[3], size)
                 r4 == Assign(r3, w, q[4], size)
             IN  Assign(r4, (NormIndex(s, w) + 1) % Len(s), {}, size)

\* a quarter round that hands the words to chacha_quarter_round as (a, b, d, c)
StateQuarterRound_swapped(s, x, y, z, w, size) ==
    LET gx == ArrayGet(s, x)
        gy == ArrayGet(s, y)
        gz == ArrayGet(s, z)
        gw == ArrayGet(s, w)
    IN  IF gx.err # "none" \/ gy.err # "none" \/ gz.err # "none" \/ gw.err # "none"
        THEN [st |-> s, err |-> "IndexError"]
        ELSE LET q  == chacha_quarter_round(gx.val, gy.val, gw.val, gz.val)
                 r1 == Assign([st |-> s, err |-> "none"], x, q[1], size)
                 r2 == Assign(r1, y, q[2], size)
                 r3 == Assign(r2, z, q[3], size)
             IN  Assign(r3, w, q[4], size)

\* a quarter round that assigns its targets from right to left
StateQuarterRound_reversed(s, x, y, z, w, size) ==
    LET gx == ArrayGet(s, x)
        gy == ArrayGet(s, y)
        gz == ArrayGet(s, z)
        gw == ArrayGet(s, w)
    IN  IF gx.err # "none" \/ gy.err # "none" \/ gz.err # "none" \/ gw.err # "none"
        THEN [st |-> s, err |-> "IndexError"]
        ELSE LET q  == chacha_quarter_round(gx.val, gy.val, gz.val, gw.val)
                 r1 == Assign([st |-> s, err |-> "none"], w, q[4], size)
                 r2 == Assign(r1, z, q[3], size)
                 r3 == Assign(r2, y, q[2], size)
             IN  Assign(r3, x, q[1], size)

\* a quarter round that takes its fourth word from the index after w
StateQuarterRound_next(s, x, y, z, w, size) ==
    LET gx == ArrayGet(s, x)
        gy == ArrayGet(s, y)
        gz == ArrayGet(s, z)
        gw == ArrayGet(s, w)
        gn == ArrayGet(s, (NormIndex(s, w) + 1) % Len(s))
    IN  IF gx.err # "none" \/ gy.err # "none" \/ gz.err # "none" \/ gw.err # "none"
        THEN [st |-> s, err |-> "IndexError"]
        ELSE LET q  == chacha_quarter_round(gx.val, gy.val, gz.val, gn.val)
                 r1 == Assign([st |-> s, err |-> "none"], x, q[1], size)
                 r2 == Assign(r1, y, q[2], size)
                 r3 == Assign(r2, z, q[3], size)
             IN  Assign(r3, w, q[4], size)

\* ChaChaState.quarter_round: the right-hand side reads self[x], self[y],
\* self[z], self[w] in that order, then the four targets are assigned from
\* left to right
StateQuarterRound(s, x, y, z, w, size) ==
    LET gx == ArrayGet(s, x)
        gy == ArrayGet(s, y)
        gz == ArrayGet(s, z)
        gw == ArrayGet(s, w)
    IN  IF gx.err # "none" \/ gy.err # "none" \/ gz.err # "none" \/ gw.err # "none"
        THEN [st |-> s, err |-> "IndexError"]
        ELSE LET q  == chacha_quarter_round(gx.val, gy.val, gz.val, gw.val)
                 r1 == Assign([st |-> s, err |-> "none"], x, q[1], size)
                 r2 == Assign(r1, y, q[2], size)
                 r3 == Assign(r2, z, q[3], size)
             IN  Assign(r3, w, q[4], size)

----------------------------------------------------------------------------
(* Inputs *)

\* the state of test_state
SampleState ==
    << Hex(\h8795, \h31e0), Hex(\hc5ec, \hf37d), Hex(\h5164, \h61b1), Hex(\hc9a6, \h2f8a),
       Hex(\h44c2, \h0ef3), Hex(\h3390, \haf7f), Hex(\hd9fc, \h690b), Hex(\h2a5f, \h714c),
       Hex(\h5337, \h2767), Hex(\hb00a, \h5631), Hex(\h974c, \h541a), Hex(\h359e, \h9963),
       Hex(\h5c97, \h1061), Hex(\h3d63, \h1689), Hex(\h2098, \hd9d6), Hex(\h91db, \hd320) >>

\* a state of boundary words: 0xFFFFFFFF, 0x80000000, 1 and 0 in turn
EdgeState ==
    [p \in 1..StateLen |->
        CASE p % 4 = 1 -> Hex(\hFFFF, \hFFFF)
          [] p % 4 = 2 -> Hex(\h8000, \h0000)
          [] p % 4 = 3 -> Hex(\h0000, \h0001)
          [] OTHER     -> {}]

InitStates == {DefaultState, SampleState, EdgeState}

\* the words of test_ops and test_quarter
OpsArgs == <<Hex(\h1111, \h1111), Hex(\h0102, \h0304), Hex(\h7777, \h7777), Hex(\h0123, \h4567)>>

QuarterArgs == <<Hex(\h1111, \h1111), Hex(\h0102, \h0304), Hex(\h9b8d, \h6f43), Hex(\h0123, \h4567)>>

\* test_ops after its add and its xor
RollArgs == <<Hex(\h1111, \h1111), Hex(\h7998, \hbfda), Hex(\h789a, \hbcde), Hex(\h0123, \h4567)>>

EdgeWords == {{}, Hex(\h0000, \h0001), Hex(\h8000, \h0000), Hex(\hFFFF, \hFFFF)}

ArgSamples ==
    {OpsArgs, QuarterArgs, RollArgs} \cup (EdgeWords \X EdgeWords \X EdgeWords \X EdgeWords)

\* the rotations chacha_quarter_round makes
RollAmounts == {16, 12, 8, 7}

----------------------------------------------------------------------------
(* The basic operations and the quarter round on four words *)

NoState == <<>>

InitOps ==
    /\ args \in ArgSamples
    /\ op = [name |-> "init"]
    /\ ret = None
    /\ err = "none"
    /\ state = NoState /\ prev = NoState /\ init0 = NoState
    /\ itemsize = 8
    /\ touched = {}
    /\ done = {}
    /\ round = <<>>
    /\ steps = 0

OpsFrame == UNCHANGED <<state, itemsize, prev, init0, touched, args, done, round, err>>

Add ==
    /\ op.name = "init"
    /\ \E i, j \in 1..4 :
        /\ op' = [name |-> "add", a |-> args[i], b |-> args[j]]
        /\ ret' = add(args[i], args[j])
    /\ steps' = steps + 1
    /\ OpsFrame

Xor ==
    /\ op.name = "init"
    /\ \E i, j \in 1..4 :
        /\ op' = [name |-> "xor", a |-> args[i], b |-> args[j]]
        /\ ret' = xor(args[i], args[j])
    /\ steps' = steps + 1
    /\ OpsFrame

LeftRoll ==
    /\ op.name = "init"
    /\ \E i \in 1..4, c \in RollAmounts :
        /\ op' = [name |-> "left_roll", x |-> args[i], c |-> c]
        /\ ret' = left_roll(args[i], c)
    /\ steps' = steps + 1
    /\ OpsFrame

\* the roll by 32 - c of what a roll by c returned
RollBack ==
    /\ op.name = "left_roll"
    /\ op' = [name |-> "roll_back", x |-> op.x, c |-> op.c, rolled |-> ret]
    /\ ret' = left_roll(ret, 32 - op.c)
    /\ steps' = steps + 1
    /\ OpsFrame

QuarterRound ==
    /\ op.name = "init"
    /\ op' = [name |-> "chacha_quarter_round",
              a |-> args[1], b |-> args[2], c |-> args[3], d |-> args[4]]
    /\ ret' = chacha_quarter_round(args[1], args[2], args[3], args[4])
    /\ steps' = steps + 1
    /\ OpsFrame

NextOps == Add \/ Xor \/ LeftRoll \/ RollBack \/ QuarterRound

SpecOps == InitOps /\ [][NextOps]_vars

----------------------------------------------------------------------------
(* A ChaChaState under get, set and quarter_round calls *)

GetIndices == {-17, -16, -1, 15, 16}

SetIndices == {-17, -1, 0, 16}

\* the largest word, 2^32 and 2^64
SetValues == {Hex(\hFFFF, \hFFFF), {32}, {64}}

\* the column and the diagonal round of the ChaCha20 schedule
ColumnRound == << <<0, 4, 8, 12>>, <<1, 5, 9, 13>>, <<2, 6, 10, 14>>, <<3, 7, 11, 15>> >>

DiagonalRound == << <<0, 5, 10, 15>>, <<1, 6, 11, 12>>, <<2, 7, 8, 13>>, <<3, 4, 9, 14>> >>

Rounds == {ColumnRound, DiagonalRound}

QuadsOf(r) == {r[k] : k \in 1..Len(r)}

\* quadruples of distinct indices: two of the column round, two of the
\* diagonal round (the one of test_state among them) and one off the schedule
DistinctQuads ==
    { <<0, 4, 8, 12>>, <<3, 7, 11, 15>>, <<2, 7, 8, 13>>, <<0, 5, 10, 15>>, <<13, 8, 7, 2>> }

\* quadruples naming an index more than once
OverlapQuads == { <<0, 0, 0, 0>>, <<2, 7, 2, 13>>, <<2, 2, 8, 8>>, <<7, 13, 8, 7>> }

\* quadruples with an index outside 0..15
OutsideQuads ==
    { <<16, 4, 8, 12>>, <<0, 4, 8, 16>>, <<0, -17, 8, 12>>,
      <<0, 5, 10, -1>>, <<-16, -12, -8, -4>>, <<-1, 5, 10, 15>> }

Quads == DistinctQuads \cup OverlapQuads \cup OutsideQuads

\* the positions of the backing array the indices name
Positions(s, is) == {NormIndex(s, i) + 1 : i \in {j \in is : IndexOk(s, j)}}

\* ChaChaState() or ChaChaState(array('L', sixteen words))
Init ==
    /\ state \in InitStates
    /\ itemsize \in {4, 8}
    /\ init0 = state
    /\ prev = state
    /\ op = [name |-> "init"]
    /\ ret = None
    /\ err = "none"
    /\ touched = {}
    /\ args = <<>>
    /\ done = {}
    /\ round = <<>>
    /\ steps = 0

\* ChaChaState.__getitem__
GetItem ==
    /\ steps < MaxSteps
    /\ \E i \in GetIndices :
        LET g == ArrayGet(state, i)
        IN  /\ op' = [name |-> "getitem", index |-> i]
            /\ ret' = g.val
            /\ err' = g.err
    /\ prev' = state
    /\ steps' = steps + 1
    /\ UNCHANGED <<state, itemsize, init0, touched, args, done, round>>

\* ChaChaState.__setitem__
SetItem ==
    /\ steps < MaxSteps
    /\ \E i \in SetIndices, v \in SetValues :
        LET r == ArraySet(state, i, v, itemsize)
        IN  /\ op' = [name |-> "setitem", index |-> i, value |-> v]
            /\ state' = r.st
            /\ err' = r.err
            /\ touched' = IF r.err = "none" THEN touched \cup Positions(state, {i})
                          ELSE touched
    /\ ret' = None
    /\ prev' = state
    /\ steps' = steps + 1
    /\ UNCHANGED <<itemsize, init0, args, done, round>>

\* ChaChaState.quarter_round
StateRound ==
    /\ steps < MaxSteps
    /\ \E q \in Quads :
        LET r == StateQuarterRound(state, q[1], q[2], q[3], q[4], itemsize)
        IN  /\ op' = [name |-> "quarter_round", x |-> q[1], y |-> q[2], z |-> q[3], w |-> q[4]]
            /\ state' = r.st
            /\ err' = r.err
            /\ touched' = IF r.err = "IndexError" THEN touched
                          ELSE touched \cup Positions(state, {q[1], q[2], q[3], q[4]})
    /\ ret' = None
    /\ prev' = state
    /\ steps' = steps + 1
    /\ UNCHANGED <<itemsize, init0, args, done, round>>

Next == GetItem \/ SetItem \/ StateRound

Spec == Init /\ [][Next]_vars

----------------------------------------------------------------------------
(* One round of the schedule, its four quarter rounds taken in any order *)

InitRound ==
    /\ state \in InitStates
    /\ round \in Rounds
    /\ itemsize \in {4, 8}
    /\ init0 = state
    /\ prev = state
    /\ op = [name |-> "init"]
    /\ ret = None
    /\ err = "none"
    /\ touched = {}
    /\ args = <<>>
    /\ done = {}
    /\ steps = 0

RoundStep ==
    /\ \E q \in QuadsOf(round) \ done :
        LET r == StateQuarterRound(state, q[1], q[2], q[3], q[4], itemsize)
        IN  /\ op' = [name |-> "quarter_round", x |-> q[1], y |-> q[2], z |-> q[3], w |-> q[4]]
            /\ state' = r.st
            /\ err' = r.err
            /\ done' = done \cup {q}
            /\ touched' = touched \cup Positions(state, {q[1], q[2], q[3], q[4]})
    /\ ret' = None
    /\ prev' = state
    /\ steps' = steps + 1
    /\ UNCHANGED <<itemsize, init0, args, round>>

NextRound == RoundStep

SpecRound == InitRound /\ [][NextRound]_vars

----------------------------------------------------------------------------
(* Word arithmetic stated on numbers, to compare the operations against *)

IsWord(x) == x \subseteq 0..31

RECURSIVE HalfFrom(_, _, _)
HalfFrom(x, base, i) ==
    IF i = 16 THEN 0 ELSE Bit(x, base + i) * Pow2(i) + HalfFrom(x, base, i + 1)

\* the low and the high 16 bits of a word, as numbers
Lo(x) == HalfFrom(x, 0, 0)

Hi(x) == HalfFrom(x, 16, 0)

\* a + b >= 2^32
Overflows(a, b) == Hi(a) + Hi(b) + ((Lo(a) + Lo(b)) \div 65536) >= 65536

\* (a + b) mod 2^32
SumMod32(a, b) ==
    Hex((Hi(a) + Hi(b) + ((Lo(a) + Lo(b)) \div 65536)) % 65536, (Lo(a) + Lo(b)) % 65536)

\* bit i of x moves to bit (i + n) mod 32
Rotl(x, n) == {(i + n) % 32 : i \in x}

\* bit i is set iff it is set in exactly one of x and y
BitXor(x, y) == {i \in 0..31 : (i \in x) # (i \in y)}

\* the four steps of the quarter round, in order
FourSteps(a, b, c, d) ==
    LET a1 == SumMod32(a, b)    d1 == Rotl(BitXor(d, a1), 16)
        c1 == SumMod32(c, d1)   b1 == Rotl(BitXor(b, c1), 12)
        a2 == SumMod32(a1, b1)  d2 == Rotl(BitXor(d1, a2), 8)
        c2 == SumMod32(c1, d2)  b2 == Rotl(BitXor(b1, c2), 7)
    IN  <<a2, b2, c2, d2>>

----------------------------------------------------------------------------
(* Claims about the operations on words, under SpecOps *)

\* the result of test_quarter
QuarterExpected ==
    <<Hex(\hea2a, \h92f4), Hex(\hcb1c, \hf8ce), Hex(\h4581, \h472e), Hex(\h5881, \hc4bb)>>

\* C1: chacha_quarter_round(a, b, c, d) returns what the four steps give when
\* run in order, each on the values of the one before, and the words of
\* test_quarter give (0xea2a92f4, 0xcb1cf8ce, 0x4581472e, 0x5881c4bb).
C1_QuarterRoundSteps ==
    op.name = "chacha_quarter_round" =>
        /\ ret = FourSteps(op.a, op.b, op.c, op.d)
        /\ (<<op.a, op.b, op.c, op.d>> = QuarterArgs => ret = QuarterExpected)

C1_Witness ==
    /\ op.name = "chacha_quarter_round"
    /\ <<op.a, op.b, op.c, op.d>> = QuarterArgs
    /\ ret = QuarterExpected

\* C6: add(a, b) is (a + b) mod 2^32 and a word; a sum of 2^32 or more wraps
\* around (add(0xFFFFFFFF, 1) = 0), and add(0x77777777, 0x01234567) = 0x789abcde.
C6_AddWraps ==
    op.name = "add" =>
        /\ ret = SumMod32(op.a, op.b)
        /\ IsWord(ret)
        /\ (op.a = Hex(\hFFFF, \hFFFF) /\ op.b = Hex(\h0000, \h0001) => ret = {})
        /\ (op.a = Hex(\h7777, \h7777) /\ op.b = Hex(\h0123, \h4567)
                => ret = Hex(\h789a, \hbcde))

C6_Witness ==
    /\ op.name = "add"
    /\ Overflows(op.a, op.b)
    /\ op.a = Hex(\hFFFF, \hFFFF) /\ op.b = Hex(\h0000, \h0001)
    /\ ret = {}

\* C7: for n in {7, 8, 12, 16} and a word x, left_roll(left_roll(x, n), 32 - n)
\* is x, and left_roll(0x7998bfda, 7) = 0xcc5fed3c.
C7_RollInverse ==
    /\ op.name = "roll_back" => ret = op.x
    /\ (op.name = "left_roll" /\ op.x = Hex(\h7998, \hbfda) /\ op.c = 7)
            => ret = Hex(\hcc5f, \hed3c)

C7_Witness ==
    /\ op.name = "roll_back"
    /\ op.x = Hex(\h7998, \hbfda) /\ op.c = 7
    /\ op.rolled = Hex(\hcc5f, \hed3c)
    /\ ret = op.x

----------------------------------------------------------------------------
(* Claims about ChaChaState, under Spec *)

\* the indices of the last quarter_round call
Quad == <<op.x, op.y, op.z, op.w>>

QuadSet == {op.x, op.y, op.z, op.w}

\* the words the last quarter_round call read, through chacha_quarter_round
QuadResult ==
    chacha_quarter_round(prev[op.x + 1], prev[op.y + 1], prev[op.z + 1], prev[op.w + 1])

\* the last place of index i in the quadruple
LastPlace(i) == CHOOSE k \in 1..4 : Quad[k] = i /\ \A j \in (k + 1)..4 : Quad[j] # i

\* C2: quarter_round(x, y, z, w) with indices in 0..15 leaves every word at an
\* index outside {x, y, z, w} as it was, and after any sequence of calls the
\* words at the positions no call wrote are those of the constructed state.
C2_NonInterference ==
    /\ (op.name = "quarter_round" /\ QuadSet \subseteq 0..15)
            => \A i \in (0..15) \ QuadSet : state[i + 1] = prev[i + 1]
    /\ \A p \in (1..Len(init0)) \ touched : state[p] = init0[p]

C2_Witness ==
    /\ op.name = "quarter_round" /\ Quad = <<2, 7, 8, 13>> /\ err = "none"
    /\ steps = 2
    /\ touched = {1, 5, 9, 13, 3, 8, 9, 14}
    /\ init0 = SampleState
    /\ \A p \in {3, 8, 9, 14} : state[p] # prev[p]
    /\ \A p \in {2, 4, 6, 7, 10, 11, 12, 15, 16} : state[p] = SampleState[p]

\* C3: quarter_round(x, y, z, w) with four distinct indices in 0..15 leaves at
\* x, y, z, w the four components of chacha_quarter_round on the words held
\* there before the call; on the state of test_state, (2, 7, 8, 13) gives
\* 0xbdb886dc, 0xcfacafd2, 0xe46bea80, 0xccc07c79.
C3_QuadrupleResult ==
    (op.name = "quarter_round" /\ QuadSet \subseteq 0..15 /\ Cardinality(QuadSet) = 4) =>
        /\ state[op.x + 1] = QuadResult[1]
        /\ state[op.y + 1] = QuadResult[2]
        /\ state[op.z + 1] = QuadResult[3]
        /\ state[op.w + 1] = QuadResult[4]
        /\ (prev = SampleState /\ Quad = <<2, 7, 8, 13>>) =>
                /\ state[3] = Hex(\hbdb8, \h86dc)
                /\ state[8] = Hex(\hcfac, \hafd2)
                /\ state[9] = Hex(\he46b, \hea80)
                /\ state[14] = Hex(\hccc0, \h7c79)

C3_Witness ==
    /\ op.name = "quarter_round" /\ Quad = <<2, 7, 8, 13>>
    /\ prev = SampleState
    /\ state[3] = Hex(\hbdb8, \h86dc)
    /\ state[14] = Hex(\hccc0, \h7c79)

\* C4 as stated: get, set or quarter_round with an index outside 0..15 raises,
\* returns no word and leaves the sixteen words as they were.
C4_OutsideIndexRaises ==
    /\ (op.name \in {"getitem", "setitem"} /\ op.index \notin 0..15)
            => (err # "none" /\ ret = None /\ state = prev)
    /\ (op.name = "quarter_round" /\ ~(QuadSet \subseteq 0..15))
            => (err # "none" /\ state = prev)

AllWords(s) == \A p \in 1..Len(s) : IsWord(s[p])

\* C8 as stated, one call at a time: from sixteen words in [0, 2^32), a set or
\* a quarter_round call with indices in 0..15 leaves every word in [0, 2^32).
C8_WordsStay32Bit ==
    [][ ( /\ AllWords(state)
          /\ \/ op'.name = "setitem" /\ op'.index \in 0..15
             \/ op'.name = "quarter_round" /\ {op'.x, op'.y, op'.z, op'.w} \subseteq 0..15 )
        => AllWords(state') ]_vars

\* C9: quarter_round with indices in 0..15 that are not distinct raises
\* nothing; chacha_quarter_round is computed once on the four words read
\* before any write, each index of the quadruple ends with the component of
\* its last place in it, and the other indices keep their words.
C9_RepeatedIndices ==
    (op.name = "quarter_round" /\ QuadSet \subseteq 0..15 /\ Cardinality(QuadSet) < 4) =>
        /\ err = "none"
        /\ \A i \in QuadSet : state[i + 1] = QuadResult[LastPlace(i)]
        /\ \A i \in (0..15) \ QuadSet : state[i + 1] = prev[i + 1]

C9_Witness ==
    /\ op.name = "quarter_round" /\ Quad = <<2, 7, 2, 13>> /\ err = "none"
    /\ prev = SampleState
    /\ state[3] = QuadResult[3]
    /\ QuadResult[3] # QuadResult[1]
    /\ state[3] # prev[3]

----------------------------------------------------------------------------
(* Claim about the rounds of the schedule, under SpecRound *)

IndicesOf(q) == {q[k] : k \in 1..4}

\* the quarter rounds r[k], r[k + 1], ... applied to s in that order
RECURSIVE InOrder(_, _, _, _)
InOrder(s, r, k, size) ==
    IF k > Len(r) THEN s
    ELSE InOrder(StateQuarterRound(s, r[k][1], r[k][2], r[k][3], r[k][4], size).st,
                 r, k + 1, size)

\* C10: the four quadruples of the column round are pairwise disjoint and
\* cover 0..15, and so are those of the diagonal round; the four quarter
\* rounds of a round give the same state in whichever order they are applied.
C10_RoundOrderFree ==
    /\ \A r \in Rounds :
        /\ UNION {IndicesOf(q) : q \in QuadsOf(r)} = 0..15
        /\ \A q1, q2 \in QuadsOf(r) : q1 # q2 => IndicesOf(q1) \cap IndicesOf(q2) = {}
    /\ done = QuadsOf(round) => state = InOrder(init0, round, 1, itemsize)

C10_Witness ==
    /\ done = QuadsOf(round)
    /\ round = DiagonalRound
    /\ Quad = round[1]
    /\ init0 = SampleState
    /\ \A p \in 1..16 : state[p] # init0[p]

====
